---- MODULE Spec2Model ----
(***************************************************************************)
(* Model of src/main.cpp: a one-entity side-scroller demo.                 *)
(*                                                                         *)
(* The program computes with IEEE-754 binary32 (`float`).  The model keeps *)
(* that arithmetic: a float is a record [k, s, e, m] whose value is        *)
(* (-1)^s * m * 2^e, every operation rounds to nearest, ties to even, and  *)
(* zeros are signed.  Infinities and NaN are carried as separate kinds.    *)
(* Every intermediate integer fits TLC's 32-bit integers (the 48-bit       *)
(* product of two significands is computed in 12-bit limbs).               *)
(***************************************************************************)
EXTENDS Integers, Sequences, FiniteSets

(***************************************************************************)
(* binary32 arithmetic                                                     *)
(***************************************************************************)
P12 == 4096
P18 == 262144
P23 == 8388608
P24 == 16777216
P30 == 1073741824
EMin == -149
EMax == 104

\* 2^n, 0 <= n <= 30
Pow2(n) == 2 ^ n

\* number of bits of m (0 for m = 0), m < 2^31
BitLen(m) ==
    IF m = 0 THEN 0 ELSE IF m >= 8388608 THEN (IF m >= 134217728 THEN (IF m >= 536870912 THEN (IF m >= 1073741824 THEN 31 ELSE 30) ELSE (IF m >= 268435456 THEN 29 ELSE 28)) ELSE (IF m >= 33554432 THEN (IF m >= 67108864 THEN 27 ELSE 26) ELSE (IF m >= 16777216 THEN 25 ELSE 24)))
    ELSE (IF m >= 4096 THEN (IF m >= 262144 THEN (IF m >= 2097152 THEN (IF m >= 4194304 THEN 23 ELSE 22) ELSE (IF m >= 1048576 THEN 21 ELSE (IF m >= 524288 THEN 20 ELSE 19))) ELSE (IF m >= 32768 THEN (IF m >= 131072 THEN 18 ELSE (IF m >= 65536 THEN 17 ELSE 16)) ELSE (IF m >= 16384 THEN 15 ELSE (IF m >= 8192 THEN 14 ELSE 13)))) ELSE (IF m >= 64 THEN (IF m >= 512 THEN (IF m >= 2048 THEN 12 ELSE (IF m >= 1024 THEN 11 ELSE 10)) ELSE (IF m >= 256 THEN 9 ELSE (IF m >= 128 THEN 8 ELSE 7))) ELSE (IF m >= 8 THEN (IF m >= 32 THEN 6 ELSE (IF m >= 16 THEN 5 ELSE 4)) ELSE (IF m >= 4 THEN 3 ELSE (IF m >= 2 THEN 2 ELSE 1)))))

Fin(s, e, m) == [k |-> "fin", s |-> s, e |-> e, m |-> m]
FZero(s) == Fin(s, 0, 0)
FInf(s) == [k |-> "inf", s |-> s, e |-> 0, m |-> 0]
FNaN == [k |-> "nan", s |-> 0, e |-> 0, m |-> 0]

IsNaN(x) == x.k = "nan"
IsInf(x) == x.k = "inf"
IsZero(x) == x.k = "fin" /\ x.m = 0

\* The rounded significand q1 at exponent te, as a float: zero, a carry out
\* of the significand, overflow to infinity
Pack(s, te, q1) ==
    IF q1 = 0 THEN FZero(s)
    ELSE IF q1 = P24
         THEN (IF te + 1 > EMax THEN FInf(s) ELSE Fin(s, te + 1, P23))
         ELSE (IF te > EMax THEN FInf(s) ELSE Fin(s, te, q1))

\* round to nearest, ties to even: quotient q, remainder rem, half of the divisor
RoundQ(s, st, te, q, rem, half) ==
    Pack(s, te, IF rem > half \/ (rem = half /\ (st = 1 \/ q % 2 = 1))
                THEN q + 1 ELSE q)

\* drop the r low bits of m
RoundShift(s, m, st, te, r) ==
    IF r > 30
    THEN Pack(s, te, IF r = 31 /\ (m > P30 \/ (m = P30 /\ st = 1)) THEN 1 ELSE 0)
    ELSE RoundQ(s, st, te, m \div Pow2(r), m % Pow2(r), Pow2(r - 1))

\* bring m * 2^e to exponent te; an exact significand still overflows to
\* infinity when te is above EMax
RoundTo(s, m, e, st, te) ==
    IF te <= e THEN Pack(s, te, m * Pow2(e - te))
    ELSE RoundShift(s, m, st, te, te - e)

\* the exponent of the result: that of a 24-bit significand, or EMin (subnormal)
TargetExp(e0) == IF e0 < EMin THEN EMin ELSE e0

\* Round (m + eps) * 2^e, 0 <= eps < 1, eps > 0 iff st = 1, to binary32.
\* m < 2^31; a caller that sets st passes at least 26 significant bits.
RoundPack(s, m, e, st) ==
    IF m = 0 THEN FZero(s)
    ELSE RoundTo(s, m, e, st, TargetExp(e + BitLen(m) - 24))

NormBy(x, l) == [s |-> x.s, e |-> x.e - l, m |-> x.m * Pow2(l)]

\* A finite nonzero float with its significand moved into [2^23, 2^24);
\* the exponent of a subnormal drops below EMin here (internal only).
Norm(x) == NormBy(x, 24 - BitLen(x.m))

FNeg(x) == IF IsNaN(x) THEN x ELSE [x EXCEPT !.s = 1 - x.s]

\* |a| >= |b| for normalised nonzero a, b
MagGE(a, b) == a.e > b.e \/ (a.e = b.e /\ a.m >= b.m)

\* A + B (same signs) or A - B (opposite signs), A >= B, in units of 2^e;
\* st = 1 when bits of B were shifted out
AddSig(sa, sb, e, A, B, st) ==
    IF sa = sb THEN RoundPack(sa, A + B, e, st)
    ELSE IF A = B /\ st = 0 THEN FZero(0)
    ELSE RoundPack(sa, A - B - st, e, st)

\* |a| >= |b|, d = a.e - b.e: three guard bits, the rest of b is sticky
AddAligned(a, b, d) ==
    IF d >= 27 THEN AddSig(a.s, b.s, a.e - 3, a.m * 8, 0, 1)
    ELSE AddSig(a.s, b.s, a.e - 3, a.m * 8, (b.m * 8) \div Pow2(d),
                IF (b.m * 8) % Pow2(d) # 0 THEN 1 ELSE 0)

AddNorm(nx, ny) ==
    IF MagGE(nx, ny) THEN AddAligned(nx, ny, nx.e - ny.e)
    ELSE AddAligned(ny, nx, ny.e - nx.e)

AddFinite(x, y) == AddNorm(Norm(x), Norm(y))

\* x + y
FAdd(x, y) ==
    IF IsNaN(x) \/ IsNaN(y) THEN FNaN
    ELSE IF IsInf(x)
         THEN (IF IsInf(y) /\ x.s # y.s THEN FNaN ELSE x)
    ELSE IF IsInf(y) THEN y
    ELSE IF IsZero(x)
         THEN (IF IsZero(y) THEN FZero(IF x.s = 1 /\ y.s = 1 THEN 1 ELSE 0) ELSE y)
    ELSE IF IsZero(y) THEN x
    ELSE AddFinite(x, y)

\* x - y
FSub(x, y) == FAdd(x, FNeg(y))

\* the 48-bit product hi * 2^24 + lo, rounded
MulPack(s, e, hi, lo) ==
    RoundPack(s, hi * 64 + lo \div P18, e + 18, IF lo % P18 # 0 THEN 1 ELSE 0)

MulLow(s, e, h, low) == MulPack(s, e, h + low \div P24, low % P24)

MulMid(s, e, hh, mid, ll) ==
    MulLow(s, e, hh + mid \div P12, (mid % P12) * P12 + ll)

\* (a1 * 2^12 + a0) * (b1 * 2^12 + b0) in 12-bit limbs
MulLimbs(s, e, a1, a0, b1, b0) ==
    MulMid(s, e, a1 * b1, a1 * b0 + a0 * b1, a0 * b0)

MulNorm(s, a, b) ==
    MulLimbs(s, a.e + b.e, a.m \div P12, a.m % P12, b.m \div P12, b.m % P12)

SignXor(x, y) == IF x.s = y.s THEN 0 ELSE 1

\* x * y
FMul(x, y) ==
    IF IsNaN(x) \/ IsNaN(y) THEN FNaN
    ELSE IF IsInf(x) \/ IsInf(y)
         THEN (IF IsZero(x) \/ IsZero(y) THEN FNaN ELSE FInf(SignXor(x, y)))
    ELSE IF IsZero(x) \/ IsZero(y) THEN FZero(SignXor(x, y))
    ELSE MulNorm(SignXor(x, y), Norm(x), Norm(y))

\* k more quotient bits (base = 2^k) of the long division by d; qr = <<q, rem>>
DivDigit(d, base, qr) ==
    <<qr[1] * base + (qr[2] * base) \div d, (qr[2] * base) % d>>

\* <<floor(n * 2^26 / d), remainder>> for n, d in [2^23, 2^24)
LongDiv(n, d) ==
    DivDigit(d, 4, DivDigit(d, 64, DivDigit(d, 64, DivDigit(d, 64,
        DivDigit(d, 64, <<n \div d, n % d>>)))))

DivPack(s, e, qr) == RoundPack(s, qr[1], e, IF qr[2] # 0 THEN 1 ELSE 0)

DivNorm(s, a, b) == DivPack(s, a.e - b.e - 26, LongDiv(a.m, b.m))

\* x / y
FDiv(x, y) ==
    IF IsNaN(x) \/ IsNaN(y) THEN FNaN
    ELSE IF IsInf(x) THEN (IF IsInf(y) THEN FNaN ELSE FInf(SignXor(x, y)))
    ELSE IF IsInf(y) THEN FZero(SignXor(x, y))
    ELSE IF IsZero(y) THEN (IF IsZero(x) THEN FNaN ELSE FInf(SignXor(x, y)))
    ELSE IF IsZero(x) THEN FZero(SignXor(x, y))
    ELSE DivNorm(SignXor(x, y), Norm(x), Norm(y))

\* int -> float, |n| < 2^31
FromInt(n) == IF n < 0 THEN RoundPack(1, 0 - n, 0, 0) ELSE RoundPack(0, n, 0, 0)

\* |a| < |b| with the sign s of both, for normalised nonzero a, b
LtNorm(s, a, b) == IF s = 0 THEN ~MagGE(a, b) ELSE ~MagGE(b, a)

\* x < y
FLt(x, y) ==
    IF IsNaN(x) \/ IsNaN(y) THEN FALSE
    ELSE IF IsZero(x) /\ IsZero(y) THEN FALSE
    ELSE IF IsInf(x) THEN x.s = 1 /\ ~(IsInf(y) /\ y.s = 1)
    ELSE IF IsInf(y) THEN y.s = 0
    ELSE IF IsZero(x) THEN y.s = 0
    ELSE IF IsZero(y) THEN x.s = 1
    ELSE IF x.s # y.s THEN x.s = 1
    ELSE LtNorm(x.s, Norm(x), Norm(y))

\* x == y
FEq(x, y) ==
    IF IsNaN(x) \/ IsNaN(y) THEN FALSE
    ELSE IF IsZero(x) /\ IsZero(y) THEN TRUE
    ELSE x = y

FNe(x, y) == ~FEq(x, y)
FGt(x, y) == FLt(y, x)
FLe(x, y) == FLt(x, y) \/ FEq(x, y)
FAbs(x) == IF IsNaN(x) THEN x ELSE [x EXCEPT !.s = 0]

\* |(int)x| for a finite x with |x| < 2^30
TruncAbs(x) ==
    IF x.m = 0 \/ x.e < -24 THEN 0
    ELSE IF x.e >= 0 THEN x.m * Pow2(x.e)
    ELSE x.m \div Pow2(0 - x.e)

(***************************************************************************)
(* Program constants (main.cpp 9-14) and float literals                    *)
(***************************************************************************)
height == 480
pixels_per_meter == 64
ground_height == height \div 5

F0 == FZero(0)
\* 0.5 (exact), 9.81f = 10286531 * 2^-20, 0.2f = 13421773 * 2^-26
FHalf == Fin(0, -24, P23)
F9_81 == Fin(0, -20, 10286531)
F0_2 == Fin(0, -26, 13421773)
F8 == FromInt(8)
F10 == FromInt(10)
F350 == FromInt(350)
F1000 == FromInt(1000)
F1500 == FromInt(1500)
FGround == FromInt(ground_height)

(***************************************************************************)
(* Bounds of the model                                                     *)
(***************************************************************************)
\* Spec: the whole keyboard, one frame time
MaxFrames == 2
MaxEvents == 4
MaxQueue == 2
LoopTimes == {16}
\* SpecPhys: frame times of every regime, a keyboard of four keys
PhysFrames == 2
PhysEvents == 3
PhysQueue == 1
PhysTimes == {0, 16, 125, 600}
PhysKeys == {"a", "d", "w", "UP"}
\* SpecDrag: movement keys held from the start, no further event
DragFrames == 3
DragTimes == {1, 16, 125, 249, 250, 600}
DragKeys == {{}, {"d"}, {"d", "RIGHT"}, {"a"}, {"LEFT", "a"}}
\* SpecJump: a jump key down from the start, one frame of 0..MaxMs ms
MaxMs == 700
JumpInits == {{"w"}, {"d", "w"}, {"a", "w"}}

(***************************************************************************)
(* Entity (main.cpp 48-110)                                                *)
(***************************************************************************)
\* Entity::Entity: direction(1), position << 0, 0; velocity << 0, 0
Entity ==
    [direction |-> 1, position |-> <<F0, F0>>, velocity |-> <<F0, F0>>]

\* float gravity = -9.81f * pixels_per_meter
gravity == FMul(FNeg(F9_81), FromInt(pixels_per_meter))

\* position[1] != (float)ground_height
Airborne(c) == FNe(c.position[2], FGround)

\* the ground plane is not enforced
SnapNever(dir, px, py, vx, vy) ==
    [direction |-> dir, position |-> <<px, py>>, velocity |-> <<vx, vy>>]

\* lines 104-109: snap to the ground plane
Snap(dir, px, py, vx, vy) ==
    IF FLt(py, FGround)
    THEN [direction |-> dir, position |-> <<px, FGround>>, velocity |-> <<vx, F0>>]
    ELSE [direction |-> dir, position |-> <<px, py>>, velocity |-> <<vx, vy>>]

\* the direction is taken from velocity.x also when it is zero
MoveAlwaysTurns(c, time, vx, vy) ==
    Snap(IF FGt(vx, F0) THEN 1 ELSE -1,
         FAdd(c.position[1], FMul(vx, time)),
         FAdd(c.position[2], FMul(vy, time)),
         vx, vy)

\* lines 99-102: position += velocity * time, then the direction faced
Move(c, time, vx, vy) ==
    Snap(IF FNe(vx, F0) THEN (IF FGt(vx, F0) THEN 1 ELSE -1) ELSE c.direction,
         FAdd(c.position[1], FMul(vx, time)),
         FAdd(c.position[2], FMul(vy, time)),
         vx, vy)

\* the jump impulse is scaled by the frame time like gravity
IntegrateJumpScaled(c, time, input, jump) ==
    Move(c, time,
         FAdd(c.velocity[1], FMul(FSub(input, FMul(F8, c.velocity[1])), time)),
         FAdd(c.velocity[2],
              FMul(FAdd(jump, FSub(gravity, FMul(F0_2, c.velocity[2]))), time)))

\* the drag term is added instead of subtracted
IntegrateDragSign(c, time, input, jump) ==
    Move(c, time,
         FAdd(c.velocity[1], FMul(FAdd(input, FMul(F8, c.velocity[1])), time)),
         FAdd(c.velocity[2],
              FAdd(jump, FMul(FSub(gravity, FMul(F0_2, c.velocity[2])), time))))

\* lines 91-109 of Entity::step, after the airborne adjustment of its arguments
Integrate(c, time, input, jump) ==
    Move(c, time,
         FAdd(c.velocity[1], FMul(FSub(input, FMul(F8, c.velocity[1])), time)),
         FAdd(c.velocity[2],
              FAdd(jump, FMul(FSub(gravity, FMul(F0_2, c.velocity[2])), time))))

\* the arguments are used as passed, in the air too
Entity_stepGrounded(c, time, input, jump) == Integrate(c, time, input, jump)

\* void Entity::step(float time, float input, float jump)
Entity_step(c, time, input, jump) ==
    IF Airborne(c)
    THEN Integrate(c, time, FMul(input, FHalf), F0)
    ELSE Integrate(c, time, input, jump)

\* abs(velocity[0]) > 10.0f.  Which abs the call resolves to depends on the
\* headers of the build: the float overload, or int abs(int) after a
\* truncating conversion (undefined when the value is out of int's range).
AbsGt10(v) ==
    {FGt(FAbs(v), F10)} \cup
    (IF v.k = "fin" /\ v.e <= 6
     THEN {TruncAbs(v) > 10}
     ELSE {TRUE, FALSE})

\* void Entity::render(cairo_t *cr): the scale, the sprite and the place drawn
Entity_render(c) ==
    {[scale  |-> c.direction,
      sprite |-> IF r THEN "guy-running" ELSE "guy",
      at     |-> <<FMul(c.position[1], FromInt(c.direction)), c.position[2]>>]
       : r \in AbsGt10(c.velocity[1])}

(***************************************************************************)
(* Input events (main.cpp 112-161)                                         *)
(***************************************************************************)
LeftKeys == {"a", "LEFT"}
RightKeys == {"d", "RIGHT"}
JumpKeys == {"w", "UP", "SPACE"}
Keys == LeftKeys \cup RightKeys \cup JumpKeys

KeyDown(k) == [type |-> "KEYDOWN", sym |-> k]
KeyUp(k) == [type |-> "KEYUP", sym |-> k]
Quit == [type |-> "QUIT", sym |-> "none"]

\* a left key that is released is not handled
KeyInputNoLeftUp(event, ci) ==
    IF event.type = "KEYUP"
    THEN (IF event.sym = "a" THEN ci + 1
          ELSE IF event.sym \in RightKeys THEN ci - 1 ELSE ci)
    ELSE IF event.type = "KEYDOWN"
    THEN (IF event.sym \in LeftKeys THEN ci - 1
          ELSE IF event.sym \in RightKeys THEN ci + 1 ELSE ci)
    ELSE ci

\* releasing a right key adds 1, as pressing it does
KeyInputUpSign(event, ci) ==
    IF event.type = "KEYUP"
    THEN (IF event.sym \in LeftKeys \cup RightKeys THEN ci + 1 ELSE ci)
    ELSE IF event.type = "KEYDOWN"
    THEN (IF event.sym \in LeftKeys THEN ci - 1
          ELSE IF event.sym \in RightKeys THEN ci + 1 ELSE ci)
    ELSE ci

\* lines 118-146: character_input after the event
KeyInput(event, ci) ==
    IF event.type = "KEYUP"
    THEN (IF event.sym \in LeftKeys THEN ci + 1
          ELSE IF event.sym \in RightKeys THEN ci - 1 ELSE ci)
    ELSE IF event.type = "KEYDOWN"
    THEN (IF event.sym \in LeftKeys THEN ci - 1
          ELSE IF event.sym \in RightKeys THEN ci + 1 ELSE ci)
    ELSE ci

\* lines 147-151: character_jump after the event
KeyJump(event, cj) ==
    IF event.type = "KEYDOWN" /\ event.sym \in JumpKeys THEN 1 ELSE cj

\* the SDL_KEYDOWN case lacks its break and falls through to return false
KeepRunningFallsThrough(event) == event.type \notin {"QUIT", "KEYDOWN"}

\* lines 156-160: false for SDL_QUIT, true otherwise
KeepRunning(event) == event.type # "QUIT"

\* bool handle_event(SDL_Event &event): the new character_input and
\* character_jump, and the value returned
handle_event(event, ci, cj) ==
    [character_input |-> KeyInput(event, ci),
     character_jump  |-> KeyJump(event, cj),
     ret             |-> KeepRunning(event)]

(***************************************************************************)
(* allocate and the global step (main.cpp 170-208)                         *)
(***************************************************************************)
\* allocate(): character = new Entity; position(0) += 50; position(1) += ground_height
allocate ==
    [Entity EXCEPT !.position = <<FAdd(Entity.position[1], FromInt(50)),
                                  FAdd(Entity.position[2], FGround)>>]

\* the arguments the global step passes to Entity::step
StepInput(ci) == FMul(FromInt(ci), F1500)
StepJump(cj) == FMul(FromInt(cj), F350)

\* character_jump is not cleared
stepKeepsFlag(c, ci, cj, time) ==
    [character      |-> Entity_step(c, time, StepInput(ci), StepJump(cj)),
     character_jump |-> cj]

\* void step(float time): the new character and character_jump
step(c, ci, cj, time) ==
    [character      |-> Entity_step(c, time, StepInput(ci), StepJump(cj)),
     character_jump |-> 0]

\* frame_time / 1000.0f
FrameSeconds(frame_time) == FDiv(FromInt(frame_time), F1000)

(***************************************************************************)
(* State                                                                   *)
(***************************************************************************)
VARIABLES
    character,        \* *character: direction, position, velocity
    character_input,  \* int character_input
    character_jump,   \* int character_jump
    running,          \* bool running (main)
    pc,               \* place in main: "poll", "step", "render", "done"
    queue,            \* SDL's event queue
    held,             \* keys physically down (the keyboard)
    frames,           \* iterations of the main loop begun so far
    posted,           \* events posted so far
    drawn,            \* what the last render drew
    last,             \* history: the most recent step call
    presses,          \* history: jump key-downs handled since the last step
    quitSeen,         \* history: handle_event has received SDL_QUIT
    iter,             \* history: what the current iteration has run so far
    script,           \* history: progress through the A, Left, A, Left script
    facing            \* history: sign of velocity.x when it last ended nonzero

vars == <<character, character_input, character_jump, running, pc, queue, held,
          frames, posted, drawn, last, presses, quitSeen, iter, script, facing>>

NoStep == [n |-> 0, pre |-> allocate, ms |-> 0, time |-> F0, input |-> F0,
           jump |-> F0, presses |-> 0]
NoDraw == [scale |-> 0, sprite |-> "none", at |-> <<F0, F0>>]

\* the events of the script: down A, down Left, up A, up Left
Script == <<KeyDown("a"), KeyDown("LEFT"), KeyUp("a"), KeyUp("LEFT")>>

Init ==
    /\ character = allocate
    /\ character_input = 0
    /\ character_jump = 0
    /\ running = TRUE
    /\ pc = "poll"
    /\ queue = <<>>
    /\ held = {}
    /\ frames = 0
    /\ posted = 0
    /\ drawn = NoDraw
    /\ last = NoStep
    /\ presses = 0
    /\ quitSeen = FALSE
    /\ iter = <<>>
    /\ script = 0
    /\ facing = 1

(***************************************************************************)
(* The main loop (main.cpp 244-280)                                        *)
(***************************************************************************)
\* The keyboard and the window: SDL_PollEvent pumps a new event into the queue.
\* A key goes down only when up and up only when down (no key repeat).
PostFrom(keys, maxEvents, maxQueue) ==
    /\ pc = "poll"
    /\ running
    /\ posted < maxEvents
    /\ Len(queue) < maxQueue
    /\ \E ev \in {KeyDown(k) : k \in keys \ held}
                 \cup {KeyUp(k) : k \in keys \cap held} \cup {Quit} :
         /\ queue' = Append(queue, ev)
         /\ held' = IF ev.type = "KEYDOWN" THEN held \cup {ev.sym}
                    ELSE IF ev.type = "KEYUP" THEN held \ {ev.sym}
                    ELSE held
    /\ posted' = posted + 1
    /\ UNCHANGED <<character, character_input, character_jump, running, pc,
                   frames, drawn, last, presses, quitSeen, iter, script, facing>>

Post == PostFrom(Keys, MaxEvents, MaxQueue)

\* while(running && SDL_PollEvent(&event)) running = handle_event(event);
PollEvent ==
    /\ pc = "poll"
    /\ running
    /\ queue # <<>>
    /\ LET ev == Head(queue)
           h  == handle_event(ev, character_input, character_jump)
       IN  /\ character_input' = h.character_input
           /\ character_jump' = h.character_jump
           /\ running' = h.ret
           /\ queue' = Tail(queue)
           /\ presses' = IF ev.type = "KEYDOWN" /\ ev.sym \in JumpKeys
                         THEN presses + 1 ELSE presses
           /\ quitSeen' = (quitSeen \/ ev.type = "QUIT")
           /\ script' = IF script \in 0..3 /\ ev = Script[script + 1]
                        THEN script + 1 ELSE -1
    /\ UNCHANGED <<character, pc, held, frames, posted, drawn, last, iter, facing>>

\* the inner loop ends: running is false, or SDL_PollEvent returned 0
PollDone ==
    /\ pc = "poll"
    /\ ~running \/ queue = <<>>
    /\ pc' = "step"
    /\ UNCHANGED <<character, character_input, character_jump, running, queue,
                   held, frames, posted, drawn, last, presses, quitSeen, iter,
                   script, facing>>

\* frame_time = new_time - time; step(frame_time / 1000.0f);
StepWith(times, maxFrames) ==
    /\ pc = "step"
    /\ frames < maxFrames
    /\ \E frame_time \in times :
         LET time == FrameSeconds(frame_time)
             r    == step(character, character_input, character_jump, time)
             vx   == r.character.velocity[1]
         IN  /\ character' = r.character
             /\ character_jump' = r.character_jump
             /\ last' = [n |-> 1, pre |-> character, ms |-> frame_time,
                         time |-> time,
                         input |-> StepInput(character_input),
                         jump |-> StepJump(character_jump),
                         presses |-> presses]
             /\ facing' = IF vx.k = "fin" /\ vx.m # 0
                          THEN (IF vx.s = 0 THEN 1 ELSE -1)
                          ELSE facing
    /\ presses' = 0
    /\ iter' = Append(iter, "step")
    /\ pc' = "render"
    /\ UNCHANGED <<character_input, running, queue, held, frames, posted, drawn,
                   quitSeen, script>>

Step == StepWith(LoopTimes, MaxFrames)

\* render(cr) and the flip; then the test of while(running)
Render ==
    /\ pc = "render"
    /\ drawn' \in Entity_render(character)
    /\ pc' = IF running THEN "poll" ELSE "done"
    /\ iter' = IF running THEN <<>> ELSE Append(iter, "render")
    /\ frames' = frames + 1
    /\ UNCHANGED <<character, character_input, character_jump, running, queue,
                   held, posted, last, presses, quitSeen, script, facing>>

Next == Post \/ PollEvent \/ PollDone \/ Step \/ Render

Spec == Init /\ [][Next]_vars

(***************************************************************************)
(* SpecPhys: the same loop under frame times of every regime               *)
(***************************************************************************)
PostPhys == PostFrom(PhysKeys, PhysEvents, PhysQueue)
StepPhys == StepWith(PhysTimes, PhysFrames)
NextPhys == PostPhys \/ PollEvent \/ PollDone \/ StepPhys \/ Render
SpecPhys == Init /\ [][NextPhys]_vars

(***************************************************************************)
(* SpecDrag, SpecJump: the loop from the state in which the key-downs of   *)
(* a set K of keys have been handled in the first iteration (in the order  *)
(* d, RIGHT, LEFT, a, w, UP, SPACE), and no event arrives afterwards.      *)
(***************************************************************************)
NetInput(K) == Cardinality(K \cap RightKeys) - Cardinality(K \cap LeftKeys)

AfterKeys(K) ==
    /\ character = allocate
    /\ character_input = NetInput(K)
    /\ character_jump = IF K \cap JumpKeys # {} THEN 1 ELSE 0
    /\ running = TRUE
    /\ pc = "poll"
    /\ queue = <<>>
    /\ held = K
    /\ frames = 0
    /\ posted = Cardinality(K)
    /\ drawn = NoDraw
    /\ last = NoStep
    /\ presses = Cardinality(K \cap JumpKeys)
    /\ quitSeen = FALSE
    /\ iter = <<>>
    /\ script = IF K = {} THEN 0 ELSE IF K = {"a"} THEN 1 ELSE -1
    /\ facing = 1

InitDrag == \E K \in DragKeys : AfterKeys(K)
StepDrag == StepWith(DragTimes, DragFrames)
NextDrag == PollDone \/ StepDrag \/ Render
SpecDrag == InitDrag /\ [][NextDrag]_vars

InitJump == \E K \in JumpInits : AfterKeys(K)
\* the first frame only: the claim is about one step from rest
StepJumpMs == StepWith(0..MaxMs, 1)
NextJump == PollDone \/ StepJumpMs \/ Render
SpecJump == InitJump /\ [][NextJump]_vars

(***************************************************************************)
(* Claims                                                                  *)
(***************************************************************************)
Stepped == last.n = 1
PosY == character.position[2]
VelX == character.velocity[1]
VelY == character.velocity[2]

\* C1: position.y >= ground_height in every state, from allocate() on, after
\* any sequence of step calls.
C1_GroundClamp == FLe(FGround, PosY)

\* C1 witness: a step that began in the air ended snapped to the ground plane.
C1_Landed == Stepped /\ Airborne(last.pre) /\ PosY = FGround /\ VelY = F0

\* C2: a step that starts airborne yields exactly the state integrated with
\* jump = 0 and input / 2; unless it lands, velocity.y changes by
\* 0 + (gravity - 0.2 * velocity.y) * time whatever jump was passed.
C2_AirborneAttenuation ==
    (Stepped /\ Airborne(last.pre)) =>
        /\ character = Integrate(last.pre, last.time, FMul(last.input, FHalf), F0)
        /\ VelX = FAdd(last.pre.velocity[1],
                       FMul(FSub(FMul(last.input, FHalf),
                                 FMul(F8, last.pre.velocity[1])), last.time))
        /\ FGt(PosY, FGround) =>
             VelY = FAdd(last.pre.velocity[2],
                         FAdd(F0, FMul(FSub(gravity, FMul(F0_2, last.pre.velocity[2])),
                                       last.time)))

\* C2 witness: a step in the air to which a jump impulse and a drive were passed.
C2_JumpInAir ==
    Stepped /\ Airborne(last.pre) /\ last.jump = F350 /\ FNe(last.input, F0)
    /\ FGt(PosY, FGround)

GroundedAtRest(c) == ~Airborne(c) /\ FEq(c.velocity[2], F0)

\* C3 as claimed: from the ground at rest, a step with a jump impulse and any
\* frame time ends with velocity.y = J + gravity * time and above the ground.
C3_AnyFrameTime ==
    (Stepped /\ GroundedAtRest(last.pre) /\ FGt(last.jump, F0)) =>
        /\ VelY = FAdd(last.jump, FMul(gravity, last.time))
        /\ FGt(PosY, FGround)

\* C3, amended: from the ground at rest, step(time, input, 350) with time > 0
\* and 350 + gravity * time > 0 (frame times of 1..557 ms) ends with
\* velocity.y = 350 + gravity * time and position.y > ground_height; with
\* time = 0 the entity stays on the ground plane with velocity.y = 350, and
\* with 350 + gravity * time < 0 it is snapped back with velocity.y = 0.
C3_JumpLeavesGround ==
    (Stepped /\ GroundedAtRest(last.pre) /\ last.jump = F350) =>
        LET vy == FAdd(F350, FMul(gravity, last.time))
        IN  /\ (FGt(last.time, F0) /\ FGt(vy, F0)) <=> last.ms \in 1..557
            /\ last.ms \in 1..557 => VelY = vy /\ FGt(PosY, FGround)
            /\ last.ms = 0 => VelY = F350 /\ PosY = FGround
            /\ last.ms > 557 => VelY = F0 /\ PosY = FGround

\* C3 witness: the longest frame that still leaves the ground.
C3_Jumped ==
    Stepped /\ GroundedAtRest(last.pre) /\ last.jump = F350 /\ last.ms = 557
    /\ FGt(PosY, FGround)

\* C4: the jump flag is set iff a jump key went down since the last step;
\* every step passes 350 if it is set and 0 otherwise, and clears it.
C4_OneShotJump ==
    /\ character_jump = (IF presses > 0 THEN 1 ELSE 0)
    /\ pc = "render" => character_jump = 0
    /\ Stepped => last.jump = (IF last.presses > 0 THEN F350 ELSE F0)

\* C4 witness: two jump key presses before one step gave a single impulse of
\* 350, and the flag is clear after the step.
C4_TwoPresses ==
    pc = "render" /\ last.presses >= 2 /\ last.jump = F350 /\ character_jump = 0

\* the keys whose last handled event is a key-down: a key with events still
\* queued is as its first queued event leaves it
HandledDown ==
    {k \in Keys :
       IF \E i \in 1..Len(queue) : queue[i].sym = k
       THEN queue[CHOOSE i \in 1..Len(queue) :
                    /\ queue[i].sym = k
                    /\ \A j \in 1..(i - 1) : queue[j].sym # k].type = "KEYUP"
       ELSE k \in held}

\* C5: character_input = (right keys down) - (left keys down), within -2..2,
\* 0 with all movement keys up; a step from the ground drives velocity.x with
\* character_input * 1500.
C5_SymmetricInput ==
    /\ character_input = NetInput(HandledDown)
    /\ character_input \in -2..2
    /\ (pc = "render" /\ ~Airborne(last.pre)) =>
          VelX = FAdd(last.pre.velocity[1],
                      FMul(FSub(FromInt(character_input * 1500),
                                FMul(F8, last.pre.velocity[1])), last.time))

\* C5 witness: both right keys down, one released again, and a step driven by +1500.
C5_HeldRight ==
    pc = "render" /\ character_input = 1 /\ posted >= 3
    /\ Cardinality(held \cap RightKeys) = 1 /\ last.input = F1500

\* C6 as claimed: every iteration handles all pending events, then steps once,
\* then renders once; the loop ends only after a quit event.
C6_AllEventsHandled ==
    /\ pc = "step" => queue = <<>> /\ iter = <<>>
    /\ pc = "render" => iter = <<"step">>
    /\ pc = "done" => quitSeen /\ iter = <<"step", "render">>
    /\ running <=> ~quitSeen

\* C6, amended: every iteration handles pending events until none is pending
\* or a quit event has been handled (events queued behind the quit event are
\* never handled), then steps once, then renders once, also in the iteration
\* that received the quit event; the loop ends only after a quit event, and
\* while none was received it keeps running.
C6_LoopOrder ==
    /\ pc = "step" => (queue = <<>> \/ ~running) /\ iter = <<>>
    /\ pc = "render" => iter = <<"step">>
    /\ pc = "done" => quitSeen /\ iter = <<"step", "render">>
    /\ pc = "poll" => iter = <<>>
    /\ running <=> ~quitSeen
    /\ ~quitSeen => pc # "done"

\* C6 witness: the loop has ended after a quit event, one event left unhandled.
C6_QuitLeavesEvent == pc = "done" /\ quitSeen /\ queue # <<>>

TargetX == FMul(last.input, Fin(0, -26, P23))
DistBefore == FAbs(FSub(last.pre.velocity[1], TargetX))
DistAfter == FAbs(FSub(VelX, TargetX))

\* C7 as claimed: on the ground with jump = 0, every step with a frame time
\* > 0 brings velocity.x closer to input / 8 and never further away.
C7_EveryFrameTime ==
    (Stepped /\ last.ms > 0) =>
        /\ FLe(DistAfter, DistBefore)
        /\ FNe(DistBefore, F0) => FLt(DistAfter, DistBefore)

\* C7, amended: on the ground with jump = 0 and a frame time of 1..249 ms
\* (8 * time < 2), no step moves velocity.x further from input / 8, and a step
\* that starts at least 1/64 away ends strictly closer; a step of more than
\* 250 ms that starts at least 1/64 away ends further away; position.y stays
\* at ground_height.  Distances are |velocity.x - input / 8| in binary32.
C7_DragContracts ==
    /\ PosY = FGround /\ VelY = F0
    /\ (Stepped /\ last.ms \in 1..249) =>
          /\ FLe(DistAfter, DistBefore)
          /\ FLe(Fin(0, -29, P23), DistBefore) => FLt(DistAfter, DistBefore)
    /\ (Stepped /\ last.ms > 250 /\ FLe(Fin(0, -29, P23), DistBefore)) =>
          FLt(DistBefore, DistAfter)

\* C7 witness: three frames of 16 ms under input 1500: velocity.x has risen
\* toward 187.5 and not reached it.
C7_Approaching ==
    /\ frames = 2 /\ pc = "render" /\ last.ms = 16 /\ last.input = F1500
    /\ FLt(last.pre.velocity[1], VelX) /\ FLt(VelX, TargetX)
    /\ FLt(FromInt(60), VelX)

\* C8 as claimed: down A, down Left, up A, up Left leaves character_input at -2.
C8_ScriptLeavesMinus2 == script = 4 => character_input = -2

\* C8, amended: down A, down Left, up A, up Left takes character_input through
\* -1, -2, -1 and leaves it at 0.
C8_ScriptNetsZero ==
    /\ script = 1 => character_input = -1
    /\ script = 2 => character_input = -2
    /\ script = 3 => character_input = -1
    /\ script = 4 => character_input = 0

\* C8 witness: the four events of the script have been handled.
C8_ScriptDone == script = 4 /\ held = {} /\ queue = <<>>

\* C9: after any step, position.y == ground_height implies velocity.y == 0.
C9_GroundedAtRest == Stepped => (PosY = FGround => FEq(VelY, F0))

\* C10: direction is +1 or -1, the sign velocity.x had when a step last ended
\* with it nonzero (+1 before any); a step ending with velocity.x == 0 keeps
\* it, and it flips in the step in which velocity.x turns from > 0 to < 0.
C10_Facing ==
    /\ character.direction \in {1, -1}
    /\ character.direction = facing
    /\ Stepped =>
         character.direction =
            IF FLt(F0, VelX) THEN 1
            ELSE IF FLt(VelX, F0) THEN -1
            ELSE last.pre.direction
    /\ (Stepped /\ FGt(last.pre.velocity[1], F0) /\ FLt(VelX, F0)) =>
         last.pre.direction = 1 /\ character.direction = -1

\* C10 witness: velocity.x went from positive to negative in one step.
C10_Flipped ==
    Stepped /\ FGt(last.pre.velocity[1], F0) /\ FLt(VelX, F0)
    /\ character.direction = -1
====
